---- MODULE Spec2Model ----
(***************************************************************************)
(* brilift: lowering of Bril functions to Cranelift IR                     *)
(* (src/brilift/src/main.rs).                                              *)
(*                                                                         *)
(* The state is that of main(): the Translator (its module and its         *)
(* context), the Bril function being compiled, and the locals of           *)
(* compile_func (the name -> Variable map, the FunctionBuilder, the        *)
(* ir::Function under construction).  One action per step of main and of   *)
(* compile_func.  A Rust panic (unwrap on None/Err, todo!(), panic!) is    *)
(* the terminal control state "panic" that keeps the Translator as it was  *)
(* when the panic was raised.                                              *)
(***************************************************************************)
EXTENDS Integers, Sequences, FiniteSets, TLC

\* Longest instruction stream of an input function.
MaxInstrs == 3
\* Longest input program (number of functions).
MaxFuncs == 2

(***************************************************************************)
(* Input domain: bril::Function values.                                    *)
(***************************************************************************)

\* Option<T> is a sequence of length 0 (None) or 1 (Some).
None == <<>>

Some(x) == <<x>>

\* bril::Code, one record shape for its four variants.
Constant(dest, typ, lit, imm) ==
    [kind |-> "Constant", dest |-> dest, typ |-> typ, lit |-> lit,
     imm |-> imm, op |-> "const", args |-> <<>>]

Value(dest, typ, op, args) ==
    [kind |-> "Value", dest |-> dest, typ |-> typ, lit |-> "", imm |-> 0,
     op |-> op, args |-> args]

Effect(op, args) ==
    [kind |-> "Effect", dest |-> "", typ |-> "", lit |-> "", imm |-> 0,
     op |-> op, args |-> args]

Label(name) ==
    [kind |-> "Label", dest |-> "", typ |-> "", lit |-> "", imm |-> 0,
     op |-> name, args |-> <<>>]

\* The instructions input functions are built from.  Every destination
\* name has one static type (a : int, b : bool); x is the argument name.
\* lit is the variant of the literal (bril::Literal::Int or ::Bool) and imm
\* its payload, true being 1.
Codes ==
    { Constant("a", "Int", "Int", 5),
      Constant("b", "Bool", "Bool", 1),
      Value("a", "Int", "id", <<"x">>),
      Effect("Print", <<"a">>),
      Effect("Print", <<"b">>),
      Effect("Print", <<"x">>),
      Effect("Return", <<"x">>),
      Label("l") }

InstrSeqs == UNION { [1..n -> Codes] : n \in 0..MaxInstrs }

FuncNames == {"f", "g", "print_int"}

ArgLists == { <<>>, <<[name |-> "x", arg_type |-> "Int"]>> }

ReturnTypes == { None, Some("Int") }

Functions ==
    [name : FuncNames, args : ArgLists, return_type : ReturnTypes,
     instrs : InstrSeqs]

NoFunc == [name |-> "", args |-> <<>>, return_type |-> None, instrs |-> <<>>]

(***************************************************************************)
(* Pure helpers of main.rs.                                                *)
(***************************************************************************)

tr_type(typ) ==
    CASE typ = "Int" -> "I64"
      [] typ = "Bool" -> "B1"

tr_sig(f) ==
    [returns |-> [k \in 1..Len(f.return_type) |-> tr_type(f.return_type[k])],
     params |-> [k \in 1..Len(f.args) |-> tr_type(f.args[k].arg_type)]]

\* HashMap::insert: the key is added, or its value replaced.
Insert(m, k, v) ==
    [x \in (DOMAIN m) \cup {k} |-> IF x = k THEN v ELSE m[x]]

EmptyMap == [x \in {} |-> 0]

\* VarOf without the arm for Value instructions.
VarOfConstantOnly(code) ==
    IF code.kind = "Constant"
    THEN Some(<<code.dest, code.typ>>)
    ELSE None

\* The filter_map closure of all_vars: Some((dest, typ)) for a Constant or
\* a Value instruction, None for an Effect and for a Label.
VarOf(code) ==
    IF code.kind = "Constant" \/ code.kind = "Value"
    THEN Some(<<code.dest, code.typ>>)
    ELSE None

RECURSIVE Collect(_, _, _)
\* .collect() into a HashMap: the pairs are inserted in stream order.
Collect(instrs, k, m) ==
    IF k > Len(instrs) THEN m
    ELSE LET p == VarOf(instrs[k])
         IN  Collect(instrs, k + 1,
                     IF p = None THEN m ELSE Insert(m, p[1][1], p[1][2]))

all_vars(f) == Collect(f.instrs, 1, EmptyMap)

\* The orders in which a HashMap with key set S may be iterated.
IterOrders(S) ==
    { o \in [1..Cardinality(S) -> S] :
        \A p, q \in 1..Cardinality(S) : p # q => o[p] # o[q] }

(***************************************************************************)
(* Translator::new: the runtime library and the empty codegen Context.     *)
(***************************************************************************)

rt_sigs == [print_int |-> [returns |-> <<>>, params |-> <<"I64">>]]

\* The FuncId of a declaration is identified with its name.
rt_funcs == [print_int |-> "print_int"]

\* ir::Function::new(): no signature entries, no blocks.
EmptyFunction ==
    [signature |-> [returns |-> <<>>, params |-> <<>>],
     ext_funcs |-> <<>>,
     params |-> <<>>,
     insts |-> <<>>,
     nblocks |-> 0,
     value_types |-> <<>>,
     aliases |-> EmptyMap]

NewModule ==
    [functions |->
        Insert(EmptyMap, "print_int",
               [linkage |-> "Import", signature |-> rt_sigs.print_int,
                defined |-> FALSE, body |-> None])]

(***************************************************************************)
(* cranelift: ir::Function, FunctionBuilder, verifier, Module, as far as   *)
(* compile_func drives them.  Values are v0, v1, ... in creation order;    *)
(* value_types[v + 1] is the type of value v.                              *)
(***************************************************************************)

\* One instruction of the block; result is -1 when it defines no value.
Inst(opcode, ty, imm, callee, args, result) ==
    [opcode |-> opcode, ty |-> ty, imm |-> imm, callee |-> callee,
     args |-> args, result |-> result]

\* ir::Function::with_name_signature, then declare_func_in_func for the
\* runtime routine: fn0 is print_int.
NewFunction(sig) ==
    [EmptyFunction EXCEPT
        !.signature = sig,
        !.ext_funcs = <<[name |-> rt_funcs.print_int,
                         signature |-> rt_sigs.print_int]>>]

\* FunctionBuilder::new: no variable declared, no block.
NewBuilder ==
    [types |-> EmptyMap, defs |-> EmptyMap, undef_variables |-> <<>>,
     position |-> None, sealed |-> {}]

\* DeclareVars with the types taken from one fixed enumeration of the map
\* while the indices follow the iteration order.
DeclareVarsTypesByFixedOrder(f, order) ==
    LET fixed == CHOOSE o \in IterOrders(DOMAIN all_vars(f)) : TRUE
    IN  [vars |-> [n \in DOMAIN all_vars(f) |->
                     (CHOOSE k \in 1..Len(order) : order[k] = n) - 1],
         types |-> [v \in 0..(Len(order) - 1) |->
                     tr_type(all_vars(f)[fixed[v + 1]])]]

\* The loop "Declare all variables": the i-th pair the map iteration yields
\* becomes Variable i (from 0), declared with the mapped type.
DeclareVars(f, order) ==
    [vars |-> [n \in DOMAIN all_vars(f) |->
                 (CHOOSE k \in 1..Len(order) : order[k] = n) - 1],
     types |-> [v \in 0..(Len(order) - 1) |->
                 tr_type(all_vars(f)[order[v + 1]])]]

\* builder.create_block(); builder.switch_to_block(block)
CreateBlock(fr) ==
    [fr EXCEPT !.cl_func.nblocks = 1, !.builder.position = Some(0)]

\* builder.ins().iconst / bconst: the instruction is appended to the block
\* and defines the next value.
Materialize(cl, opcode, ty, imm) ==
    [cl EXCEPT
        !.insts = Append(@, Inst(opcode, ty, imm, -1, <<>>,
                                 Len(cl.value_types))),
        !.value_types = Append(@, ty)]

\* def_var that keeps a variable's first binding.
def_var_keep_first(b, var, val) ==
    IF var \in DOMAIN b.defs THEN b ELSE [b EXCEPT !.defs = Insert(@, var, val)]

\* builder.def_var: the variable's current value in the block.
def_var(b, var, val) == [b EXCEPT !.defs = Insert(@, var, val)]

\* builder.use_var: the value bound in this block, if any; otherwise (the
\* block is not sealed) a fresh block parameter of the variable's type,
\* recorded as undefined and bound to the variable.
use_var(fr, var) ==
    IF var \in DOMAIN fr.builder.defs
    THEN [cl_func |-> fr.cl_func, builder |-> fr.builder,
          val |-> fr.builder.defs[var]]
    ELSE LET val == Len(fr.cl_func.value_types)
         IN  [cl_func |-> [fr.cl_func EXCEPT
                    !.value_types = Append(@, fr.builder.types[var]),
                    !.params = Append(@, val)],
              builder |-> [def_var(fr.builder, var, val) EXCEPT
                    !.undef_variables = Append(@, <<var, val>>)],
              val |-> val]

\* Constant arm of compile_func: literal, then def_var.
LowerConstant(fr, vars, inst) ==
    LET val == Len(fr.cl_func.value_types)
        cl  == IF inst.lit = "Int"
               THEN Materialize(fr.cl_func, "iconst", "I64", inst.imm)
               ELSE Materialize(fr.cl_func, "bconst", "B1", inst.imm)
    IN  [cl_func |-> cl, builder |-> def_var(fr.builder, vars[inst.dest], val)]

\* Effect / Print arm of compile_func: use_var of the first argument, then
\* a call of print_int (fn0) on it.
LowerPrint(fr, vars, inst) ==
    LET u == use_var(fr, vars[inst.args[1]])
    IN  [cl_func |-> [u.cl_func EXCEPT
                !.insts = Append(@, Inst("call", "", 0, 0, <<u.val>>, -1))],
         builder |-> u.builder]

\* builder.ins().return_(&[])
EmitReturn(cl) ==
    [cl EXCEPT !.insts = Append(@, Inst("return", "", 0, -1, <<>>, -1))]

RemoveVal(s, v) == SelectSeq(s, LAMBDA e : e # v)

RECURSIVE SealUndef(_, _, _)
\* seal_block on a block without predecessors: each undefined variable's
\* block parameter is removed and aliased to a zero of its type, which is
\* inserted at the head of the block.
SealUndef(cl, undef, k) ==
    IF k > Len(undef) THEN cl
    ELSE LET val  == undef[k][2]
             ty   == cl.value_types[val + 1]
             z    == Len(cl.value_types)
             zero == Inst(IF ty = "B1" THEN "bconst" ELSE "iconst",
                          ty, 0, -1, <<>>, z)
         IN  SealUndef([cl EXCEPT
                           !.insts = <<zero>> \o @,
                           !.params = RemoveVal(@, val),
                           !.value_types = Append(@, ty),
                           !.aliases = Insert(@, val, z)],
                       undef, k + 1)

\* return_, seal_block, finalize (lines 165-168).
Finish(fr) ==
    [cl_func |-> SealUndef(EmitReturn(fr.cl_func),
                           fr.builder.undef_variables, 1),
     builder |-> [fr.builder EXCEPT !.undef_variables = <<>>,
                                    !.sealed = {0},
                                    !.position = None]]

ValueTypes(cl, vals) == [k \in 1..Len(vals) |-> cl.value_types[vals[k] + 1]]

\* cranelift_codegen::verifier::verify_function on what compile_func can
\* build: the entry block's parameters match the signature's, the block
\* ends in its only terminator, a call's arguments have the callee's
\* parameter types, and a return's arguments the signature's return types.
verify_function(cl) ==
    /\ ValueTypes(cl, cl.params) = cl.signature.params
    /\ Len(cl.insts) >= 1
    /\ \A k \in 1..Len(cl.insts) :
          LET inst == cl.insts[k]
          IN  /\ (inst.opcode = "return") <=> (k = Len(cl.insts))
              /\ inst.opcode = "call" =>
                    ValueTypes(cl, inst.args)
                        = cl.ext_funcs[inst.callee + 1].signature.params
              /\ inst.opcode = "return" =>
                    ValueTypes(cl, inst.args) = cl.signature.returns

\* Linkage::merge over the two linkages used here.
LinkageMerge(a, b) == IF a = "Export" THEN "Export" ELSE b

\* Module::declare_function: a new name is added; a known name has its
\* linkage merged and must have the same signature.
declare_function(m, name, linkage, sig) ==
    IF name \in DOMAIN m.functions
    THEN [ok |-> m.functions[name].signature = sig,
          module |-> [m EXCEPT !.functions[name].linkage =
                                    LinkageMerge(@, linkage)]]
    ELSE [ok |-> TRUE,
          module |-> [m EXCEPT !.functions =
                        Insert(@, name,
                               [linkage |-> linkage, signature |-> sig,
                                defined |-> FALSE, body |-> None])]]

\* Module::define_function(func_id, ctx): the function held by ctx becomes
\* the body of func_id.
define_function(m, id, ctx) ==
    [m EXCEPT !.functions[id].defined = TRUE,
              !.functions[id].body = Some(ctx.func)]

(***************************************************************************)
(* compile_func, lines 105-169, as steps on its locals.  A step takes and  *)
(* returns the record cs of the locals: pc, idx (the position of the loop  *)
(* over func.instrs), vars (the HashMap<&String, Variable>), builder,      *)
(* cl_func, err ("" while nothing panicked).                               *)
(***************************************************************************)

\* A panic: control stops, everything else stays as it was.
Raise(cs, reason) == [cs EXCEPT !.pc = "panic", !.err = reason]

\* Lines 107-119: signature, ir::Function, FunctionBuilder, print_int.
Begin(f) ==
    [pc |-> "declare_vars", idx |-> 0, vars |-> EmptyMap,
     builder |-> NewBuilder, cl_func |-> NewFunction(tr_sig(f)), err |-> ""]

\* Lines 121-131: declare all variables in the map's iteration order, then
\* create the block and switch to it.
DeclareStep(cs, f, order) ==
    LET d == DeclareVars(f, order)
    IN  CreateBlock([cs EXCEPT !.vars = d.vars,
                               !.builder.types = d.types,
                               !.idx = 1,
                               !.pc = "lower"])

\* Lines 138-145.
ConstantStep(cs, inst) ==
    IF inst.dest \in DOMAIN cs.vars
    THEN LET fr == LowerConstant(cs, cs.vars, inst)
         IN  [cs EXCEPT !.cl_func = fr.cl_func, !.builder = fr.builder,
                        !.idx = @ + 1]
    ELSE Raise(cs, "unwrap on None")

\* Lines 148-154.
PrintStep(cs, inst) ==
    IF Len(inst.args) = 0
    THEN Raise(cs, "index out of bounds")
    ELSE IF inst.args[1] \in DOMAIN cs.vars
    THEN LET fr == LowerPrint(cs, cs.vars, inst)
         IN  [cs EXCEPT !.cl_func = fr.cl_func, !.builder = fr.builder,
                        !.idx = @ + 1]
    ELSE Raise(cs, "unwrap on None")

\* Line 155: todo!()
TodoStep(cs) == Raise(cs, "not yet implemented")

\* Lines 158 and 161: the arms "_ => ()".
SkipStep(cs) == [cs EXCEPT !.idx = @ + 1]

\* One iteration of the loop over func.instrs.
LowerStep(cs, f) ==
    LET inst == f.instrs[cs.idx]
    IN  CASE inst.kind = "Constant" -> ConstantStep(cs, inst)
          [] inst.kind = "Effect" /\ inst.op = "Print" -> PrintStep(cs, inst)
          [] inst.kind = "Effect" /\ inst.op # "Print" -> TodoStep(cs)
          [] OTHER -> SkipStep(cs)

\* Lines 165-168.
FinishStep(cs) ==
    LET fr == Finish(cs)
    IN  [cs EXCEPT !.cl_func = fr.cl_func, !.builder = fr.builder,
                   !.pc = "verify"]

\* The locals when compile_func is not running.
Idle ==
    [pc |-> "main", idx |-> 0, vars |-> EmptyMap, builder |-> NewBuilder,
     cl_func |-> EmptyFunction, err |-> ""]

(***************************************************************************)
(* State.                                                                  *)
(***************************************************************************)
VARIABLES
    pc,        \* control point of main / compile_func
    consumed,  \* names of the functions of prog.functions taken so far
    func,      \* compile_func's argument
    vars,      \* compile_func's HashMap<&String, Variable>
    builder,   \* the FunctionBuilder
    cl_func,   \* the ir::Function being built
    idx,       \* position of the loop over func.instrs
    module,    \* Translator.module
    context,   \* Translator.context
    err,       \* what the panic was, "" while there is none
    pfunc,     \* two independent runs of compile_func: their argument,
    copyA,     \*   the locals of the first run,
    copyB      \*   the locals of the second run

vars_all == <<pc, consumed, func, vars, builder, cl_func, idx, module,
              context, err, pfunc, copyA, copyB>>

pair == <<pfunc, copyA, copyB>>

Cur ==
    [pc |-> pc, idx |-> idx, vars |-> vars, builder |-> builder,
     cl_func |-> cl_func, err |-> err]

Become(cs) ==
    /\ pc' = cs.pc
    /\ idx' = cs.idx
    /\ vars' = cs.vars
    /\ builder' = cs.builder
    /\ cl_func' = cs.cl_func
    /\ err' = cs.err

Init ==
    /\ pc = "main"
    /\ consumed = <<>>
    /\ func = NoFunc
    /\ vars = EmptyMap
    /\ builder = NewBuilder
    /\ cl_func = EmptyFunction
    /\ idx = 0
    /\ module = NewModule
    /\ context = [func |-> EmptyFunction]
    /\ err = ""
    /\ pfunc = NoFunc
    /\ copyA = Idle
    /\ copyB = Idle

(***************************************************************************)
(* main: for bril_func in prog.functions { trans.compile_func(bril_func) } *)
(***************************************************************************)

\* The iterator yields the next function and compile_func is entered.
main_next ==
    /\ pc = "main"
    /\ Len(consumed) < MaxFuncs
    /\ \E f \in Functions :
          /\ func' = f
          /\ consumed' = Append(consumed, f.name)
          /\ Become(Begin(f))
    /\ UNCHANGED <<module, context, pair>>

\* The iterator is exhausted: main returns.
main_exit ==
    /\ pc = "main"
    /\ pc' = "done"
    /\ UNCHANGED <<consumed, func, vars, builder, cl_func, idx, module,
                   context, err, pair>>

(***************************************************************************)
(* compile_func                                                            *)
(***************************************************************************)

declare_vars ==
    /\ pc = "declare_vars"
    /\ \E order \in IterOrders(DOMAIN all_vars(func)) :
          Become(DeclareStep(Cur, func, order))
    /\ UNCHANGED <<consumed, func, module, context, pair>>

AtInstr(kind) ==
    /\ pc = "lower"
    /\ idx <= Len(func.instrs)
    /\ func.instrs[idx].kind = kind

\* bril::Instruction::Constant
lower_constant ==
    /\ AtInstr("Constant")
    /\ Become(ConstantStep(Cur, func.instrs[idx]))
    /\ UNCHANGED <<consumed, func, module, context, pair>>

\* bril::Instruction::Effect with EffectOps::Print
lower_print ==
    /\ AtInstr("Effect")
    /\ func.instrs[idx].op = "Print"
    /\ Become(PrintStep(Cur, func.instrs[idx]))
    /\ UNCHANGED <<consumed, func, module, context, pair>>

\* bril::Instruction::Effect with any other operator
lower_effect_todo ==
    /\ AtInstr("Effect")
    /\ func.instrs[idx].op # "Print"
    /\ Become(TodoStep(Cur))
    /\ UNCHANGED <<consumed, func, module, context, pair>>

\* bril::Instruction::Value
lower_value ==
    /\ AtInstr("Value")
    /\ Become(SkipStep(Cur))
    /\ UNCHANGED <<consumed, func, module, context, pair>>

\* bril::Code::Label
lower_label ==
    /\ AtInstr("Label")
    /\ Become(SkipStep(Cur))
    /\ UNCHANGED <<consumed, func, module, context, pair>>

\* After the loop: return_, seal_block, finalize.
finish ==
    /\ pc = "lower"
    /\ idx > Len(func.instrs)
    /\ Become(FinishStep(Cur))
    /\ UNCHANGED <<consumed, func, module, context, pair>>

\* verify_function; panic!("{}", errors) on Err.
verify ==
    /\ pc = "verify"
    /\ \/ /\ verify_function(cl_func)
          /\ Become([Cur EXCEPT !.pc = "declare"])
       \/ /\ ~verify_function(cl_func)
          /\ Become(Raise(Cur, "verifier errors"))
    /\ UNCHANGED <<consumed, func, module, context, pair>>

\* self.module.declare_function(&func.name, Export, &cl_func.signature)
\*     .unwrap()
declare ==
    /\ pc = "declare"
    /\ LET r == declare_function(module, func.name, "Export",
                                 cl_func.signature)
       IN  /\ module' = r.module
           /\ \/ /\ r.ok
                 /\ Become([Cur EXCEPT !.pc = "define"])
              \/ /\ ~r.ok
                 /\ Become(Raise(Cur, "unwrap on Err: IncompatibleSignature"))
    /\ UNCHANGED <<consumed, func, context, pair>>

\* self.module.define_function(func_id, &mut self.context).unwrap()
\* The backend compiles the function held by the context, and whether that
\* succeeds is the backend's; a second definition of an id is an Err.
define ==
    /\ pc = "define"
    /\ \/ /\ ~module.functions[func.name].defined
          /\ module' = define_function(module, func.name, context)
          /\ Become([Cur EXCEPT !.pc = "return"])
       \/ /\ module.functions[func.name].defined
          /\ Become(Raise(Cur, "unwrap on Err: DuplicateDefinition"))
          /\ UNCHANGED module
       \/ /\ ~module.functions[func.name].defined
          /\ Become(Raise(Cur, "unwrap on Err: Compilation"))
          /\ UNCHANGED module
    /\ UNCHANGED <<consumed, func, context, pair>>

\* compile_func returns cl_func, which main drops with the other locals.
compile_func_return ==
    /\ pc = "return"
    /\ func' = NoFunc
    /\ Become(Idle)
    /\ UNCHANGED <<consumed, module, context, pair>>

Next ==
    \/ main_next
    \/ main_exit
    \/ declare_vars
    \/ lower_constant
    \/ lower_print
    \/ lower_effect_todo
    \/ lower_value
    \/ lower_label
    \/ finish
    \/ verify
    \/ declare
    \/ define
    \/ compile_func_return

Spec == Init /\ [][Next]_vars_all

(***************************************************************************)
(* Two independent runs of compile_func (lines 105-169) on one function,   *)
(* stepped side by side, each with its own iteration order of the map.     *)
(***************************************************************************)

main_state == <<pc, consumed, func, vars, builder, cl_func, idx, module,
                context, err>>

pair_begin ==
    /\ copyA.pc = "main"
    /\ \E f \in Functions :
          /\ pfunc' = f
          /\ copyA' = Begin(f)
          /\ copyB' = Begin(f)
    /\ UNCHANGED main_state

pair_declare_vars ==
    /\ copyA.pc = "declare_vars"
    /\ copyB.pc = "declare_vars"
    /\ \E orderA, orderB \in IterOrders(DOMAIN all_vars(pfunc)) :
          /\ copyA' = DeclareStep(copyA, pfunc, orderA)
          /\ copyB' = DeclareStep(copyB, pfunc, orderB)
    /\ UNCHANGED <<pfunc, main_state>>

pair_lower ==
    /\ copyA.pc = "lower"
    /\ copyB.pc = "lower"
    /\ copyA.idx <= Len(pfunc.instrs)
    /\ copyB.idx <= Len(pfunc.instrs)
    /\ copyA' = LowerStep(copyA, pfunc)
    /\ copyB' = LowerStep(copyB, pfunc)
    /\ UNCHANGED <<pfunc, main_state>>

pair_finish ==
    /\ copyA.pc = "lower"
    /\ copyB.pc = "lower"
    /\ copyA.idx > Len(pfunc.instrs)
    /\ copyB.idx > Len(pfunc.instrs)
    /\ copyA' = FinishStep(copyA)
    /\ copyB' = FinishStep(copyB)
    /\ UNCHANGED <<pfunc, main_state>>

NextPair ==
    \/ pair_begin
    \/ pair_declare_vars
    \/ pair_lower
    \/ pair_finish

SpecPair == Init /\ [][NextPair]_vars_all

(***************************************************************************)
(* Properties.                                                             *)
(***************************************************************************)

Range(s) == { s[k] : k \in 1..Len(s) }

\* The destination names of a function's Constant and Value instructions.
DestNames(f) ==
    { f.instrs[k].dest :
        k \in { j \in 1..Len(f.instrs) :
                  f.instrs[j].kind \in {"Constant", "Value"} } }

\* The type the defining instruction of name n declares.
DeclaredType(f, n) ==
    f.instrs[CHOOSE k \in 1..Len(f.instrs) :
                /\ f.instrs[k].kind \in {"Constant", "Value"}
                /\ f.instrs[k].dest = n].typ

\* An instruction the lowerer has no translation for.
Unsupported(code) ==
    \/ code.kind = "Value"
    \/ code.kind = "Effect" /\ code.op # "Print"

\* Every name an instruction uses is an argument or some destination.
WellFormed(f) ==
    \A k \in 1..Len(f.instrs) :
        Range(f.instrs[k].args)
            \subseteq { f.args[j].name : j \in 1..Len(f.args) }
                          \cup DestNames(f)

\* The program's functions that the module holds as exported declarations.
Registered ==
    { n \in Range(consumed) :
        /\ n \in DOMAIN module.functions
        /\ module.functions[n].linkage = "Export" }

HasDuplicate(s) == \E p, q \in 1..Len(s) : p # q /\ s[p] = s[q]

\* compile_func has built the function (line 169 is passed).
Built == pc \in {"verify", "declare", "define", "return"}

LoweringPanic ==
    /\ pc = "panic"
    /\ err \in {"unwrap on None", "index out of bounds",
                "not yet implemented", "verifier errors"}

\* C1: when compile_func returns, the module holds an exported definition
\* under the function's name whose body is the function compile_func
\* lowered and verified; and when main's loop finishes there is exactly one
\* such definition per function of the program.
C1_ModuleHoldsLoweredFunctions ==
    /\ pc = "return" =>
          /\ module.functions[func.name].linkage = "Export"
          /\ module.functions[func.name].defined
          /\ module.functions[func.name].body = Some(cl_func)
    /\ pc = "done" =>
          /\ Cardinality(Registered) = Len(consumed)
          /\ \A n \in Registered : module.functions[n].defined

\* C2: all-or-nothing: when translation aborts on an unsupported operator
\* or on a verification failure, no function of the program is registered
\* in the module.
C2_AbortLeavesNothingRegistered ==
    (pc = "panic" /\ err \in {"not yet implemented", "verifier errors"})
        => Registered = {}

\* C3: no instruction without a lowering (a Value instruction, an Effect
\* other than Print) is ever passed over: lowering never stands behind one.
C3_UnsupportedNeverSkipped ==
    \A k \in 1..Len(func.instrs) :
        k < idx => ~Unsupported(func.instrs[k])

\* C4: a program in which two functions share a name never completes, and
\* when it aborts on the duplicate no function is left registered.
C4_DuplicateLeavesNothing ==
    HasDuplicate(consumed) =>
        /\ pc # "done"
        /\ (pc = "panic" /\ err = "unwrap on Err: DuplicateDefinition")
              => Registered = {}

IsIdentity(f) ==
    /\ f.args = <<[name |-> "x", arg_type |-> "Int"]>>
    /\ f.return_type = Some("Int")
    /\ f.instrs = <<Effect("Return", <<"x">>)>>

\* C5: the one-argument identity function lowers without error to a
\* one-block function with signature (I64) -> I64 whose entry block has the
\* incoming argument as its parameter and whose return carries exactly it.
C5_IdentityLowers ==
    IsIdentity(func) =>
        /\ ~LoweringPanic
        /\ Built =>
              /\ cl_func.signature = [returns |-> <<"I64">>,
                                      params |-> <<"I64">>]
              /\ cl_func.nblocks = 1
              /\ Len(cl_func.params) = 1
              /\ ValueTypes(cl_func, cl_func.params) = <<"I64">>
              /\ cl_func.insts[Len(cl_func.insts)].opcode = "return"
              /\ cl_func.insts[Len(cl_func.insts)].args = cl_func.params

IsIntConstant(c) == c.kind = "Constant" /\ c.typ = "Int" /\ c.lit = "Int"

ConstantsBefore(f, k) ==
    Cardinality({ j \in 1..(k - 1) : f.instrs[j].kind = "Constant" })

\* The Constant instructions before position k that define name n.
DefsBefore(f, k, n) ==
    { j \in 1..(k - 1) :
        f.instrs[j].kind = "Constant" /\ f.instrs[j].dest = n }

LastDefBefore(f, k, n) ==
    CHOOSE j \in DefsBefore(f, k, n) : \A i \in DefsBefore(f, k, n) : i <= j

\* A zero-argument void function of integer Constants and one-argument
\* Prints of names defined earlier in the stream.
ConstPrintFunction(f) ==
    /\ f.args = <<>>
    /\ f.return_type = None
    /\ \A k \in 1..Len(f.instrs) :
          \/ IsIntConstant(f.instrs[k])
          \/ /\ f.instrs[k].kind = "Effect"
             /\ f.instrs[k].op = "Print"
             /\ Len(f.instrs[k].args) = 1
             /\ DefsBefore(f, k, f.instrs[k].args[1]) # {}

\* C6: such a function lowers, without panic, to a zero-parameter function
\* without return value and with one block that holds, in source order, one
\* literal per Constant and one call of print_int per Print, the call's
\* argument being the value of the latest Constant to the printed name,
\* followed by one return, the last and only terminator.
C6_ConstPrintLowering ==
    ConstPrintFunction(func) =>
        /\ ~LoweringPanic
        /\ Built =>
              /\ cl_func.signature = [returns |-> <<>>, params |-> <<>>]
              /\ cl_func.nblocks = 1
              /\ cl_func.params = <<>>
              /\ Len(cl_func.insts) = Len(func.instrs) + 1
              /\ \A k \in 1..Len(func.instrs) :
                    IF func.instrs[k].kind = "Constant"
                    THEN cl_func.insts[k]
                           = Inst("iconst", "I64", func.instrs[k].imm, -1,
                                  <<>>, ConstantsBefore(func, k))
                    ELSE /\ cl_func.insts[k].opcode = "call"
                         /\ cl_func.ext_funcs[cl_func.insts[k].callee + 1].name
                              = "print_int"
                         /\ cl_func.insts[k].args
                              = <<ConstantsBefore(func,
                                     LastDefBefore(func, k,
                                        func.instrs[k].args[1]))>>
              /\ cl_func.insts[Len(cl_func.insts)]
                   = Inst("return", "", 0, -1, <<>>, -1)

\* A built function that prints a name after defining it twice.
C6_Witness ==
    /\ Built
    /\ ConstPrintFunction(func)
    /\ \E k \in 1..Len(func.instrs) :
          /\ func.instrs[k].kind = "Effect"
          /\ Cardinality(DefsBefore(func, k, func.instrs[k].args[1])) = 2

\* C7: once the pre-pass has run, the declared Variables are as many as the
\* distinct destination names of the function's Constant and Value
\* instructions, each name has one Variable, distinct names have distinct
\* indices, and nothing else has one.
C7_RegisterCount ==
    idx >= 1 =>
        /\ DOMAIN vars = DestNames(func)
        /\ Cardinality(DOMAIN builder.types) = Cardinality(DestNames(func))
        /\ \A m, n \in DOMAIN vars : m # n => vars[m] # vars[n]
        /\ { vars[n] : n \in DOMAIN vars } = DOMAIN builder.types

\* Three defining instructions (a Constant and a Value among them) over
\* two names, the pre-pass done.
C7_Witness ==
    /\ pc = "lower"
    /\ Len(func.instrs) = 3
    /\ \A k \in 1..3 : func.instrs[k].kind \in {"Constant", "Value"}
    /\ \E k \in 1..3 : func.instrs[k].kind = "Value"
    /\ Cardinality(DestNames(func)) = 2

\* What the claim calls the structure of the target IR.
Shape(cs) ==
    [signature |-> cs.cl_func.signature,
     blocks |-> cs.cl_func.nblocks,
     params |-> ValueTypes(cs.cl_func, cs.cl_func.params),
     insts |-> [k \in 1..Len(cs.cl_func.insts) |->
                  <<cs.cl_func.insts[k].opcode, cs.cl_func.insts[k].ty,
                    cs.cl_func.insts[k].imm, cs.cl_func.insts[k].callee,
                    Len(cs.cl_func.insts[k].args)>>],
     value_types |-> cs.cl_func.value_types,
     registers |-> Cardinality(DOMAIN cs.builder.types)]

\* C8: two independent runs of compile_func on one function, whatever the
\* iteration order of the map in each, stay at the same control point, fail
\* alike, and build structurally identical IR: block count, sequence of
\* operation shapes, register count.
C8_Deterministic ==
    /\ copyA.pc = copyB.pc
    /\ copyA.err = copyB.err
    /\ copyA.idx = copyB.idx
    /\ Shape(copyA) = Shape(copyB)

\* Both runs are through, their maps were iterated in different orders, and
\* a variable was used before it was defined.
C8_Witness ==
    /\ copyA.pc = "verify"
    /\ copyB.pc = "verify"
    /\ copyA.vars # copyB.vars
    /\ \E k \in 1..Len(copyA.cl_func.insts) :
          copyA.cl_func.insts[k].opcode = "call"
    /\ DOMAIN copyA.cl_func.aliases # {}

\* C9: for a well-formed function every register exists before the first
\* instruction is lowered and no name lookup of the lowering fails.
C9_LookupsSucceed ==
    WellFormed(func) =>
        /\ idx >= 1 => DOMAIN vars = DestNames(func)
        /\ ~(pc = "panic" /\ err \in {"unwrap on None", "index out of bounds"})

LoweredPrints ==
    SelectSeq(SubSeq(func.instrs, 1, idx - 1),
              LAMBDA c : c.kind = "Effect" /\ c.op = "Print")

EmittedCalls == SelectSeq(cl_func.insts, LAMBDA i : i.opcode = "call")

\* C10: the routine called for a lowered Print has, as its parameter type,
\* the mapped type of the declared type of the printed name.
C10_PrintBindingMatchesType ==
    pc = "lower" =>
        \A k \in 1..Len(EmittedCalls) :
            cl_func.ext_funcs[EmittedCalls[k].callee + 1].signature.params
                = <<tr_type(DeclaredType(func, LoweredPrints[k].args[1]))>>

====
